---------------------------- MODULE Spec2Model ----------------------------
(***************************************************************************)
(* A model of SqlAlchemyQueryBuilder.build_query (src/sql_query_builder.py)*)
(* over the schema of src/models.py.                                       *)
(*                                                                         *)
(* A Python string is a sequence of tokens: a token is a name ("user"),    *)
(* the separator "." or the direction marker "-".  str.split(".") is the   *)
(* operator Split; a segment is again a sequence of tokens, so "--title"   *)
(* stripped of one marker is the one segment <<"-", "title">>, which no    *)
(* attribute is named by.                                                  *)
(*                                                                         *)
(* A Select statement is the record of the calls made on it: the outer     *)
(* joins, the loader options, the where clauses, the order-by keys, the    *)
(* limit and the offset, each in call order.                               *)
(*                                                                         *)
(* The ORM library is not part of the repository.  Where the builder hands *)
(* it a relationship attribute in a place made for a column (a comparison  *)
(* with "__all__", load_only, an operator function, order_by), the library *)
(* either accepts the attribute or raises: the model takes both outcomes.  *)
(***************************************************************************)
EXTENDS Integers, Sequences, FiniteSets, TLC

VARIABLES
    model_class,    \* build_query argument: the root class
    fields,         \* build_query argument: selection paths (absent = <<>>)
    filters,        \* build_query argument: dict as a sequence of [key, value]
    order_by,       \* build_query argument: sort paths (absent = <<>>)
    limit,          \* build_query argument: None or an integer
    offset,         \* build_query argument: None or an integer
    pc,             \* the position of the call in build_query
    stmt,           \* the statement built so far
    mapping,        \* model_name_selectable_fields_mapping of the call
    error,          \* the exception the call ended with, if any
    flat_list,      \* the path strings the tree is built from
    position,       \* how many of flat_list are in the tree
    fields_parts,   \* the tree: the nodes made so far, oldest first
    builder,        \* the tree-based builder: _stmt, _contains_eager_chain
    call,           \* the last build_query call made on it, if any
    calls           \* how many calls were made on it

vars == <<model_class, fields, filters, order_by, limit, offset,
          pc, stmt, mapping, error, flat_list, position, fields_parts,
          builder, call, calls>>

\* The builder instance of src/selectable_field.py and the calls on it.
instance == <<builder, call, calls>>

\* The path tree of the tree-building code.
tree == <<flat_list, position, fields_parts>>

args == <<model_class, fields, filters, order_by, limit, offset>>

-----------------------------------------------------------------------------
(* Optional values and results of calls that may raise.                    *)

None == <<>>

Some(x) == <<x>>

Ok(v) == [ok |-> TRUE, val |-> v]

Raise(exc, msg) == [ok |-> FALSE, err |-> [exc |-> exc, msg |-> msg]]

Last(s) == s[Len(s)]

Front(s) == SubSeq(s, 1, Len(s) - 1)

-----------------------------------------------------------------------------
(* The schema: src/database.py (Base.id) and src/models.py.                *)

Entities == {"User", "Profile", "Post", "Comment"}

Columns(m) ==
    CASE m = "User"    -> {"id", "username", "password", "profile_id"}
      [] m = "Profile" -> {"id", "first_name", "last_name", "age"}
      [] m = "Post"    -> {"id", "title", "content", "user_id"}
      [] m = "Comment" -> {"id", "content", "user_id", "post_id", "is_published"}
      [] OTHER         -> {}

Relationships ==
    { [model |-> "User",    name |-> "profile",  target |-> "Profile"],
      [model |-> "User",    name |-> "posts",    target |-> "Post"],
      [model |-> "User",    name |-> "comments", target |-> "Comment"],
      [model |-> "Profile", name |-> "user",     target |-> "User"],
      [model |-> "Post",    name |-> "user",     target |-> "User"],
      [model |-> "Post",    name |-> "comments", target |-> "Comment"],
      [model |-> "Comment", name |-> "user",     target |-> "User"],
      [model |-> "Comment", name |-> "post",     target |-> "Post"] }

RelationshipNames(m) == { r.name : r \in { x \in Relationships : x.model = m } }

\* An InstrumentedAttribute: the class it belongs to and its name.
Attr(m, n) == [model |-> m, name |-> n]

\* field.property._is_relationship
IsRelationship(a) == a.name \in RelationshipNames(a.model)

\* field.property.mapper.class_
MapperClass(a) ==
    (CHOOSE r \in Relationships : r.model = a.model /\ r.name = a.name).target

\* getattr(model_class, name, None) over the mapped attributes of the class;
\* a segment names an attribute only when it is that one name.
GetAttr(m, seg) ==
    IF Len(seg) = 1 /\ seg[1] \in (Columns(m) \cup RelationshipNames(m))
    THEN Some(Attr(m, seg[1]))
    ELSE None

-----------------------------------------------------------------------------
(* Strings.                                                                *)

Sep == "."

Dash == "-"

Star == <<"*">>

RECURSIVE SplitFrom(_, _, _, _)
SplitFrom(s, i, cur, acc) ==
    IF i > Len(s) THEN Append(acc, cur)
    ELSE IF s[i] = Sep THEN SplitFrom(s, i + 1, <<>>, Append(acc, cur))
    ELSE SplitFrom(s, i + 1, Append(cur, s[i]), acc)

\* str.split("."): never empty, "" splits into one empty segment.
Split(s) == SplitFrom(s, 1, <<>>, <<>>)

StartsWithDash(s) == Len(s) > 0 /\ s[1] = Dash

-----------------------------------------------------------------------------
(* Schema access.                                                          *)

\* _get_field: any attribute the class has is returned, a relationship too.
GetField(m, seg) ==
    LET field == GetAttr(m, seg) IN
    IF field = None
    THEN Raise("ValueError", "does not contain field")
    ELSE Ok(field[1])

\* _get_relationship_field
GetRelationshipField(m, seg) ==
    LET relationship_field == GetAttr(m, seg) IN
    IF relationship_field = None
    THEN Raise("ValueError", "does not contain relationship")
    ELSE IF ~IsRelationship(relationship_field[1])
    THEN Raise("ValueError", "is not relationship of model")
    ELSE Ok(relationship_field[1])

\* _get_operators_mapping
OperatorsMapping ==
    [eq |-> "__eq__", le |-> "__le__", lt |-> "__lt__", ne |-> "__ne__",
     between |-> "between", icontains |-> "icontains", in |-> "in_",
     ilike |-> "ilike", not_in |-> "not_in"]

PossibleOperators == DOMAIN OperatorsMapping

\* name_parts[-1] in possible_operators
IsOperator(seg) == Len(seg) = 1 /\ seg[1] \in PossibleOperators

\* _get_field_operator_function: every mapped attribute has each of the
\* operator functions of the table, so the lookup finds one.
GetFieldOperatorFunction(field, operator_name) ==
    IF operator_name \in { OperatorsMapping[o] : o \in PossibleOperators }
    THEN Ok([field |-> field, function |-> operator_name])
    ELSE Raise("ValueError", "does not has operator function")

-----------------------------------------------------------------------------
(* The statement.                                                          *)

\* select(model_class)
Select(m) ==
    [entity |-> m, outerjoin |-> <<>>, options |-> <<>>, where |-> <<>>,
     order_by |-> <<>>, limit |-> None, offset |-> None]

\* A root check that lets every class through.
GenerateInitStmtUnchecked(m) == Ok(Select(m))

\* _generate_init_stmt: issubclass(model_class, Base)
GenerateInitStmt(m) ==
    IF m \in Entities
    THEN Ok(Select(m))
    ELSE Raise("ValueError", "is not a sqlalchemy class")

\* The library refusing a relationship attribute where it wants a column.
OrmRefuses == Raise("OrmError", "relationship attribute where a column is expected")

HasRelationship(attrs) == \E i \in 1..Len(attrs) : IsRelationship(attrs[i])

-----------------------------------------------------------------------------
(* Preparation of the arguments.                                           *)

\* _get_order_by_field_direction
GetOrderByFieldDirection(order_by_field) ==
    IF StartsWithDash(order_by_field) THEN "desc" ELSE "asc"

\* A stripping that removes every leading marker, not one.
RECURSIVE RemoveEveryDirectionPrefix(_)
RemoveEveryDirectionPrefix(order_by_field) ==
    IF StartsWithDash(order_by_field)
    THEN RemoveEveryDirectionPrefix(Tail(order_by_field))
    ELSE order_by_field

\* _remove_order_by_field_direction_prefix
RemoveOrderByFieldDirectionPrefix(order_by_field) ==
    IF StartsWithDash(order_by_field) THEN Tail(order_by_field) ELSE order_by_field

\* _get_prepared_selectable_fields
GetPreparedSelectableFields(field_names) ==
    [i \in 1..Len(field_names) |-> [name_parts |-> Split(field_names[i])]]

RECURSIVE UniquePrefixes(_, _, _)
UniquePrefixes(prepared, i, unique) ==
    IF i > Len(prepared) THEN unique
    ELSE LET name_parts == prepared[i].name_parts
             relationship_name_parts == Front(name_parts)
         IN IF Len(name_parts) > 1
               /\ ~\E k \in 1..Len(unique) : unique[k] = relationship_name_parts
            THEN UniquePrefixes(prepared, i + 1, Append(unique, relationship_name_parts))
            ELSE UniquePrefixes(prepared, i + 1, unique)

\* _get_prepared_join_fields
GetPreparedJoinFields(prepared_selectable_fields) ==
    LET unique == UniquePrefixes(prepared_selectable_fields, 1, <<>>)
    IN [k \in 1..Len(unique) |-> [name_parts |-> unique[k]]]

\* A preparation that takes the whole key as the path and eq as the
\* operator, whatever the last segment is.
PreparedFilterWholeKey(field_name, value) ==
    [name_parts |-> Split(field_name), operator |-> "eq", value |-> value]

\* one iteration of _get_prepared_filters
PreparedFilter(field_name, value) ==
    LET name_parts == Split(field_name) IN
    IF IsOperator(Last(name_parts))
    THEN [name_parts |-> Front(name_parts), operator |-> Last(name_parts)[1],
          value |-> value]
    ELSE [name_parts |-> name_parts, operator |-> "eq", value |-> value]

\* _get_prepared_filters
GetPreparedFilters(fs) ==
    [i \in 1..Len(fs) |-> PreparedFilter(fs[i].key, fs[i].value)]

\* one iteration of _get_prepared_order_by_fields
PreparedOrderByField(order_by_field) ==
    [name_parts |-> Split(RemoveOrderByFieldDirectionPrefix(order_by_field)),
     direction |-> GetOrderByFieldDirection(order_by_field)]

\* _get_prepared_order_by_fields
GetPreparedOrderByFields(order_by_fields) ==
    [i \in 1..Len(order_by_fields) |-> PreparedOrderByField(order_by_fields[i])]

-----------------------------------------------------------------------------
(* Selection: the projection mapping.                                      *)

\* The "__all__" entry of a list of selectable fields.
All == Attr("", "__all__")

\* The walk of one selection path in _get_model_selectable_fields_mapping:
\* a part is the last one when it equals name_parts[-1].
RECURSIVE WalkSelectable(_, _, _, _)
WalkSelectable(name_parts, i, model_class_, field) ==
    IF i > Len(name_parts) THEN Ok([model |-> model_class_, field |-> field])
    ELSE LET name_part == name_parts[i] IN
         IF name_part = Last(name_parts)
         THEN IF name_part = Star
              THEN WalkSelectable(name_parts, i + 1, model_class_, All)
              ELSE LET got == GetField(model_class_, name_part) IN
                   IF got.ok
                   THEN WalkSelectable(name_parts, i + 1, model_class_, got.val)
                   ELSE got
         ELSE LET got == GetRelationshipField(model_class_, name_part) IN
              IF got.ok
              THEN WalkSelectable(name_parts, i + 1, MapperClass(got.val), got.val)
              ELSE got

\* model_selectable_fields_mapping = {}
EmptyMapping == [model \in {} |-> <<>>]

\* mapping[model].append(field), the key created on first use
AppendField(m, model, field) ==
    IF model \in DOMAIN m
    THEN [m EXCEPT ![model] = Append(@, field)]
    ELSE [k \in DOMAIN m \cup {model} |-> IF k = model THEN <<field>> ELSE m[k]]

RECURSIVE CollectSelectable(_, _, _, _)
CollectSelectable(root, prepared, i, m) ==
    IF i > Len(prepared) THEN Ok(m)
    ELSE LET walked == WalkSelectable(prepared[i].name_parts, 1, root, All) IN
         IF walked.ok
         THEN CollectSelectable(root, prepared, i + 1,
                                AppendField(m, walked.val.model, walked.val.field))
         ELSE walked

\* A membership test that looks at the first entry only: under it a
\* wildcard that comes after an explicit field goes unseen.
ContainsAllFirstEntryOnly(selectable_fields, i, orm) ==
    IF Len(selectable_fields) = 0 THEN Ok(FALSE)
    ELSE IF selectable_fields[1] = All THEN Ok(TRUE)
    ELSE IF IsRelationship(selectable_fields[1]) /\ orm THEN OrmRefuses
    ELSE Ok(FALSE)

\* "__all__" in selectable_fields: the list is compared entry by entry up
\* to the first match; orm says whether the library raises when the entry
\* compared is a relationship attribute.
RECURSIVE ContainsAll(_, _, _)
ContainsAll(selectable_fields, i, orm) ==
    IF i > Len(selectable_fields) THEN Ok(FALSE)
    ELSE IF selectable_fields[i] = All THEN Ok(TRUE)
    ELSE IF IsRelationship(selectable_fields[i]) /\ orm THEN OrmRefuses
    ELSE ContainsAll(selectable_fields, i + 1, orm)

\* An entry of the cleaned mapping: "__all__", or the list of fields.
AllFields == [all |-> TRUE, fields |-> <<>>]

OnlyFields(fs) == [all |-> FALSE, fields |-> fs]

\* _clean_model_selectable_fields_mapping
CleanModelSelectableFieldsMapping(m, orm) ==
    IF \E model \in DOMAIN m : ~ContainsAll(m[model], 1, orm).ok
    THEN OrmRefuses
    ELSE Ok([model \in DOMAIN m |->
                IF ContainsAll(m[model], 1, orm).val
                THEN AllFields
                ELSE OnlyFields(m[model])])

\* _get_model_selectable_fields_mapping
GetModelSelectableFieldsMapping(root, prepared_selectable_fields, orm) ==
    LET collected == CollectSelectable(root, prepared_selectable_fields, 1,
                                       EmptyMapping) IN
    IF collected.ok
    THEN CleanModelSelectableFieldsMapping(collected.val, orm)
    ELSE collected

-----------------------------------------------------------------------------
(* Selection: the root's fields, the joins and the joined fields.          *)

\* A loader option: contains_eager(*chain), then load_only(*fields) if any;
\* the root's load_only has the empty chain.
Option(chain, load_only) == [chain |-> chain, load_only |-> load_only]

\* _set_head_selectable_fields_to_stmt
SetHeadSelectableFieldsToStmt(st, root, m, orm) ==
    IF root \notin DOMAIN m \/ m[root].all
    THEN Ok(st)
    ELSE LET selectable_fields == m[root].fields IN
         IF orm /\ HasRelationship(selectable_fields)
         THEN OrmRefuses
         ELSE Ok([st EXCEPT !.options =
                     Append(@, Option(<<>>, Some(selectable_fields)))])

\* A walk that joins at every hop, without looking at
\* already_joined_models.
RECURSIVE WalkJoinEveryHop(_, _, _)
WalkJoinEveryHop(name_parts, i, w) ==
    IF i > Len(name_parts) THEN Ok(w)
    ELSE LET got == GetRelationshipField(w.model, name_parts[i]) IN
         IF ~got.ok THEN got
         ELSE WalkJoinEveryHop(name_parts, i + 1,
                [model  |-> MapperClass(got.val),
                 chain  |-> Append(w.chain, got.val),
                 stmt   |-> [w.stmt EXCEPT !.outerjoin = Append(@, got.val)],
                 joined |-> Append(w.joined, MapperClass(got.val))])

\* A walk that puts into the chain only the relationships it joins.
RECURSIVE WalkJoinChainOfJoins(_, _, _)
WalkJoinChainOfJoins(name_parts, i, w) ==
    IF i > Len(name_parts) THEN Ok(w)
    ELSE LET got == GetRelationshipField(w.model, name_parts[i]) IN
         IF ~got.ok THEN got
         ELSE LET target == MapperClass(got.val)
                  fresh == ~\E k \in 1..Len(w.joined) : w.joined[k] = target
              IN WalkJoinChainOfJoins(name_parts, i + 1,
                   [model  |-> target,
                    chain  |-> IF fresh THEN Append(w.chain, got.val) ELSE w.chain,
                    stmt   |-> IF fresh
                               THEN [w.stmt EXCEPT !.outerjoin = Append(@, got.val)]
                               ELSE w.stmt,
                    joined |-> IF fresh THEN Append(w.joined, target)
                               ELSE w.joined])

\* The walk of one join field in
\* _set_joins_and_nested_selectable_fields_to_stmt; w holds model_class_,
\* contains_eager_chain_values, stmt and already_joined_models.
RECURSIVE WalkJoin(_, _, _)
WalkJoin(name_parts, i, w) ==
    IF i > Len(name_parts) THEN Ok(w)
    ELSE LET got == GetRelationshipField(w.model, name_parts[i]) IN
         IF ~got.ok THEN got
         ELSE LET relationship_field == got.val
                  target == MapperClass(relationship_field)
                  fresh == ~\E k \in 1..Len(w.joined) : w.joined[k] = target
              IN WalkJoin(name_parts, i + 1,
                   [model  |-> target,
                    chain  |-> Append(w.chain, relationship_field),
                    stmt   |-> IF fresh
                               THEN [w.stmt EXCEPT !.outerjoin =
                                        Append(@, relationship_field)]
                               ELSE w.stmt,
                    joined |-> IF fresh THEN Append(w.joined, target)
                               ELSE w.joined])

RECURSIVE SetJoinsFrom(_, _, _, _, _, _, _)
SetJoinsFrom(root, prepared_join_fields, k, st, already_joined_models, m, orm) ==
    IF k > Len(prepared_join_fields) THEN Ok(st)
    ELSE LET walked == WalkJoin(prepared_join_fields[k].name_parts, 1,
                                [model |-> root, chain |-> <<>>, stmt |-> st,
                                 joined |-> already_joined_models])
         IN IF ~walked.ok THEN walked
            ELSE LET w == walked.val IN
                 IF w.model \notin DOMAIN m
                 THEN Raise("KeyError", "model_name_selectable_fields_mapping")
                 ELSE IF m[w.model].all
                 THEN SetJoinsFrom(root, prepared_join_fields, k + 1,
                        [w.stmt EXCEPT !.options = Append(@, Option(w.chain, None))],
                        w.joined, m, orm)
                 ELSE IF orm /\ HasRelationship(m[w.model].fields)
                 THEN OrmRefuses
                 ELSE SetJoinsFrom(root, prepared_join_fields, k + 1,
                        [w.stmt EXCEPT !.options =
                            Append(@, Option(w.chain, Some(m[w.model].fields)))],
                        w.joined, m, orm)

\* _set_joins_and_nested_selectable_fields_to_stmt
SetJoinsAndNestedSelectableFieldsToStmt(st, root, prepared_join_fields, m, orm) ==
    SetJoinsFrom(root, prepared_join_fields, 1, st, <<>>, m, orm)

\* _add_joins_and_selectable_fields
AddJoinsAndSelectableFields(st, root, field_names, orm) ==
    IF field_names = <<>> THEN Ok(st)
    ELSE LET prepared_selectable_fields == GetPreparedSelectableFields(field_names)
             got == GetModelSelectableFieldsMapping(
                        root, prepared_selectable_fields, orm)
         IN IF ~got.ok THEN got
            ELSE LET head == SetHeadSelectableFieldsToStmt(st, root, got.val, orm)
                 IN IF ~head.ok THEN head
                    ELSE SetJoinsAndNestedSelectableFieldsToStmt(
                             head.val, root,
                             GetPreparedJoinFields(prepared_selectable_fields),
                             got.val, orm)

-----------------------------------------------------------------------------
(* Filters and sorting.                                                    *)

\* The walk of one path in _set_filters_to_stmt and _set_order_by_to_stmt:
\* a part is the last one when it equals name_parts[-1].  field is the
\* local variable of the method: None while it is unbound.
RECURSIVE WalkField(_, _, _, _)
WalkField(name_parts, i, model_class_, field) ==
    IF i > Len(name_parts) THEN Ok(field)
    ELSE LET name_part == name_parts[i] IN
         IF name_part = Last(name_parts)
         THEN LET got == GetField(model_class_, name_part) IN
              IF got.ok
              THEN WalkField(name_parts, i + 1, model_class_, Some(got.val))
              ELSE got
         ELSE LET got == GetRelationshipField(model_class_, name_part) IN
              IF got.ok
              THEN WalkField(name_parts, i + 1, MapperClass(got.val), Some(got.val))
              ELSE got

\* stmt.where(field_operator_function(prepared_filter.value))
Where(st, field, function, value) ==
    [st EXCEPT !.where =
        Append(@, [field |-> field, function |-> function, value |-> value])]

\* The loop of _set_filters_to_stmt from the k-th filter on; field lives
\* across the iterations.
RECURSIVE SetFiltersFrom(_, _, _, _, _, _)
SetFiltersFrom(root, prepared_filters, k, st, field, orm) ==
    IF k > Len(prepared_filters) THEN Ok(st)
    ELSE LET prepared_filter == prepared_filters[k]
             walked == WalkField(prepared_filter.name_parts, 1, root, field)
         IN IF ~walked.ok THEN walked
            ELSE IF walked.val = None THEN Raise("UnboundLocalError", "field")
            ELSE LET found == walked.val[1]
                     fn == GetFieldOperatorFunction(
                               found, OperatorsMapping[prepared_filter.operator])
                 IN IF ~fn.ok THEN fn
                    ELSE IF orm /\ IsRelationship(found) THEN OrmRefuses
                    ELSE SetFiltersFrom(root, prepared_filters, k + 1,
                           Where(st, found, fn.val.function, prepared_filter.value),
                           walked.val, orm)

\* _set_filters_to_stmt
SetFiltersToStmt(st, root, prepared_filters, orm) ==
    SetFiltersFrom(root, prepared_filters, 1, st, None, orm)

\* _add_filters
AddFiltersToStmt(st, root, fs, orm) ==
    IF fs = <<>> THEN Ok(st)
    ELSE SetFiltersToStmt(st, root, GetPreparedFilters(fs), orm)

\* stmt.order_by(field) or stmt.order_by(field.desc())
OrderBy(st, field, direction) ==
    [st EXCEPT !.order_by = Append(@, [field |-> field, direction |-> direction])]

RECURSIVE SetOrderByFrom(_, _, _, _, _)
SetOrderByFrom(root, prepared_order_by_fields, k, st, orm) ==
    IF k > Len(prepared_order_by_fields) THEN Ok(st)
    ELSE LET prepared_order_by_field == prepared_order_by_fields[k]
             walked == WalkField(prepared_order_by_field.name_parts, 1, root, None)
         IN IF ~walked.ok THEN walked
            ELSE IF orm /\ IsRelationship(walked.val[1]) THEN OrmRefuses
            ELSE SetOrderByFrom(root, prepared_order_by_fields, k + 1,
                   OrderBy(st, walked.val[1],
                           IF prepared_order_by_field.direction = "asc"
                           THEN "asc" ELSE "desc"),
                   orm)

\* _set_order_by_to_stmt
SetOrderByToStmt(st, root, prepared_order_by_fields, orm) ==
    SetOrderByFrom(root, prepared_order_by_fields, 1, st, orm)

\* _add_order_by
AddOrderByToStmt(st, root, order_by_fields, orm) ==
    IF order_by_fields = <<>> THEN Ok(st)
    ELSE SetOrderByToStmt(st, root, GetPreparedOrderByFields(order_by_fields), orm)

\* not limit: None and 0 are falsy
Falsy(n) == n = None \/ n[1] = 0

\* _add_limit_to_stmt
AddLimitToStmt(st, n) ==
    IF Falsy(n) THEN st ELSE [st EXCEPT !.limit = n]

\* _add_offset_to_stmt
AddOffsetToStmt(st, n) ==
    IF Falsy(n) THEN st ELSE [st EXCEPT !.offset = n]

-----------------------------------------------------------------------------
(* The builder of src/selectable_field.py as its __init__ leaves it.       *)

FreshInstance == [stmt |-> None, contains_eager_chain |-> None]

-----------------------------------------------------------------------------
(* The arguments build_query is called with.                               *)

\* The most paths, filter keys and pagination values one call is given.
MaxInputs == 3

\* The largest limit and offset.
MaxPage == 2

\* "a", "a.b", "a.b.c", "a.b.c.d" as strings
P1(a) == <<a>>

P2(a, b) == <<a, Sep, b>>

P3(a, b, c) == <<a, Sep, b, Sep, c>>

P4(a, b, c, d) == <<a, Sep, b, Sep, c, Sep, d>>

Roots == {"Post", "Comment", "Object"}

FieldPool ==
    { P1("title"), P1("*"), P1("user"), P1("nope"),
      P2("user", "id"), P2("user", "username"), P2("user", "*"),
      P2("user", "user"), P2("*", "*"), P2("title", "id"),
      P3("user", "profile", "age"), P3("comments", "user", "id"),
      <<>>, P3("user", "posts", "title") }

FilterKeyPool ==
    { P1("title"), P1("in"), P1("user"),
      P2("title", "gt"), P2("user", "nope"),
      P3("user", "id", "in"),
      P4("user", "profile", "age", "between"),
      P2("title", "title"), <<"user", Sep, Sep, "id">> }

FilterValues == {"x", "[20, 40]"}

OrderByPool ==
    { P1("title"), <<Dash, "title">>, <<Dash, Dash, "title">>, P1("user"),
      P3("user", "profile", "age"),
      <<Dash>> \o P3("user", "profile", "first_name"),
      P2("title", "title"), <<Dash>> }

PageValues == {None} \cup { Some(n) : n \in (-1)..MaxPage }

\* A dict holds a key once.
DistinctKeys(fs) ==
    \A i, j \in 1..Len(fs) : fs[i].key = fs[j].key => i = j

Given(n) == IF n = None THEN 0 ELSE 1

Init ==
    /\ model_class \in Roots
    /\ \E a \in 0..MaxInputs :
         \E b \in 0..(MaxInputs - a) :
           \E c \in 0..(MaxInputs - a - b) :
             /\ fields \in [1..a -> FieldPool]
             /\ filters \in { fs \in [1..b -> [key : FilterKeyPool,
                                               value : FilterValues]] :
                                DistinctKeys(fs) }
             /\ order_by \in [1..c -> OrderByPool]
             /\ limit \in PageValues
             /\ offset \in PageValues
             /\ a + b + c + Given(limit) + Given(offset) <= MaxInputs
    /\ pc = "start"
    /\ stmt = None
    /\ mapping = EmptyMapping
    /\ error = None
    /\ flat_list = <<>>
    /\ position = 0
    /\ fields_parts = <<>>
    /\ builder = FreshInstance
    /\ call = None
    /\ calls = 0

-----------------------------------------------------------------------------
(* build_query, one action for each step of it.                            *)

\* An exception leaves build_query: the call returns no statement.  The
\* exception carries the step it was raised in.
Fails(err) ==
    /\ pc' = "failed"
    /\ error' = Some([exc |-> err.exc, msg |-> err.msg, at |-> pc])

\* stmt = self._generate_init_stmt(model_class)
GenerateInitStmtStep ==
    /\ pc = "start"
    /\ LET made == GenerateInitStmt(model_class) IN
         IF made.ok
         THEN stmt' = made.val /\ pc' = "select" /\ UNCHANGED error
         ELSE Fails(made.err) /\ UNCHANGED stmt
    /\ UNCHANGED <<args, tree, instance, mapping>>

\* _add_joins_and_selectable_fields up to the mapping
GetMappingStep ==
    /\ pc = "select"
    /\ IF fields = <<>>
       THEN pc' = "filters" /\ UNCHANGED <<mapping, error>>
       ELSE \E orm \in BOOLEAN :
              LET got == GetModelSelectableFieldsMapping(
                             model_class, GetPreparedSelectableFields(fields), orm)
              IN IF got.ok
                 THEN mapping' = got.val /\ pc' = "head" /\ UNCHANGED error
                 ELSE Fails(got.err) /\ UNCHANGED mapping
    /\ UNCHANGED <<args, tree, instance, stmt>>

\* _add_joins_and_selectable_fields: the root's fields
SetHeadStep ==
    /\ pc = "head"
    /\ \E orm \in BOOLEAN :
         LET set == SetHeadSelectableFieldsToStmt(stmt, model_class, mapping, orm)
         IN IF set.ok
            THEN stmt' = set.val /\ pc' = "joins" /\ UNCHANGED error
            ELSE Fails(set.err) /\ UNCHANGED stmt
    /\ UNCHANGED <<args, tree, instance, mapping>>

\* _add_joins_and_selectable_fields: the joins and the joined fields
SetJoinsStep ==
    /\ pc = "joins"
    /\ \E orm \in BOOLEAN :
         LET set == SetJoinsAndNestedSelectableFieldsToStmt(
                        stmt, model_class,
                        GetPreparedJoinFields(GetPreparedSelectableFields(fields)),
                        mapping, orm)
         IN IF set.ok
            THEN stmt' = set.val /\ pc' = "filters" /\ UNCHANGED error
            ELSE Fails(set.err) /\ UNCHANGED stmt
    /\ UNCHANGED <<args, tree, instance, mapping>>

\* A filter stage whose failure does not end the call: the statement is
\* left as it was and the call goes on to the sort stage.
AddFiltersStepGoesOn ==
    /\ pc = "filters"
    /\ \E orm \in BOOLEAN :
         LET added == AddFiltersToStmt(stmt, model_class, filters, orm)
         IN stmt' = IF added.ok THEN added.val ELSE stmt
    /\ pc' = "order_by"
    /\ UNCHANGED <<args, tree, instance, mapping, error>>

\* stmt = self._add_filters(stmt, model_class, filters)
AddFiltersStep ==
    /\ pc = "filters"
    /\ \E orm \in BOOLEAN :
         LET added == AddFiltersToStmt(stmt, model_class, filters, orm)
         IN IF added.ok
            THEN stmt' = added.val /\ pc' = "order_by" /\ UNCHANGED error
            ELSE Fails(added.err) /\ UNCHANGED stmt
    /\ UNCHANGED <<args, tree, instance, mapping>>

\* stmt = self._add_order_by(stmt, model_class, order_by)
AddOrderByStep ==
    /\ pc = "order_by"
    /\ \E orm \in BOOLEAN :
         LET added == AddOrderByToStmt(stmt, model_class, order_by, orm)
         IN IF added.ok
            THEN stmt' = added.val /\ pc' = "limit" /\ UNCHANGED error
            ELSE Fails(added.err) /\ UNCHANGED stmt
    /\ UNCHANGED <<args, tree, instance, mapping>>

\* stmt = self._add_limit_to_stmt(stmt, limit)
AddLimitStep ==
    /\ pc = "limit"
    /\ stmt' = AddLimitToStmt(stmt, limit)
    /\ pc' = "offset"
    /\ UNCHANGED <<args, tree, instance, mapping, error>>

\* stmt = self._add_offset_to_stmt(stmt, offset); return stmt
AddOffsetStep ==
    /\ pc = "offset"
    /\ stmt' = AddOffsetToStmt(stmt, offset)
    /\ pc' = "done"
    /\ UNCHANGED <<args, tree, instance, mapping, error>>

Next ==
    \/ GenerateInitStmtStep
    \/ GetMappingStep
    \/ SetHeadStep
    \/ SetJoinsStep
    \/ AddFiltersStep
    \/ AddOrderByStep
    \/ AddLimitStep
    \/ AddOffsetStep

Spec == Init /\ [][Next]_vars

-----------------------------------------------------------------------------
(* The path tree: _prepare_field_parts and BasePart.get_or_create_child of *)
(* src/selectable_field.py; build_trees and TreeNode.add_child of          *)
(* src/test.py and _get_selectable_fields and                              *)
(* SelectableField.get_or_create_child of src/main.py are the same code.   *)
(* A node is its name and its parent's place in fields_parts (0 for a      *)
(* root); the children of a node, and the roots, are in the order they     *)
(* were made, which is the order of the children list and of the dict.     *)

\* The most path strings one tree is built from.
MaxPaths == 3

DunderSep == "__"

RECURSIVE SplitDunderFrom(_, _, _, _)
SplitDunderFrom(s, i, cur, acc) ==
    IF i > Len(s) THEN Append(acc, cur)
    ELSE IF s[i] = DunderSep THEN SplitDunderFrom(s, i + 1, <<>>, Append(acc, cur))
    ELSE SplitDunderFrom(s, i + 1, Append(cur, s[i]), acc)

\* field_name.split('__')
SplitDunder(s) == SplitDunderFrom(s, 1, <<>>, <<>>)

\* The children of node self (the roots when self = 0) named name.
Named(nodes, self, name) ==
    { k \in 1..Len(nodes) : nodes[k].parent = self /\ nodes[k].name = name }

First(S) == CHOOSE k \in S : \A l \in S : k <= l

\* A get_or_create_child that makes a new child without looking for one
\* of that name.
GetOrCreateChildAlways(nodes, self, name) ==
    [nodes |-> Append(nodes, [name |-> name, parent |-> self]),
     child |-> Len(nodes) + 1]

\* BasePart.get_or_create_child: the first child of that name, or a new
\* child appended to the children.
GetOrCreateChild(nodes, self, name) ==
    IF Named(nodes, self, name) # {}
    THEN [nodes |-> nodes, child |-> First(Named(nodes, self, name))]
    ELSE [nodes |-> Append(nodes, [name |-> name, parent |-> self]),
          child |-> Len(nodes) + 1]

\* _prepare_field_parts, the first part of a path: the root under that key
\* of the dict, or a new root put under it.
GetOrCreateRoot(nodes, name) ==
    IF Named(nodes, 0, name) # {}
    THEN [nodes |-> nodes, child |-> First(Named(nodes, 0, name))]
    ELSE [nodes |-> Append(nodes, [name |-> name, parent |-> 0]),
          child |-> Len(nodes) + 1]

\* _prepare_field_parts, the loop over the parts of one path;
\* current_field_name_part is 0 for None.
RECURSIVE InsertParts(_, _, _, _)
InsertParts(nodes, field_name_parts, i, current_field_name_part) ==
    IF i > Len(field_name_parts) THEN nodes
    ELSE LET got == IF current_field_name_part = 0
                    THEN GetOrCreateRoot(nodes, field_name_parts[i])
                    ELSE GetOrCreateChild(nodes, current_field_name_part,
                                          field_name_parts[i])
         IN InsertParts(got.nodes, field_name_parts, i + 1, got.child)

\* _prepare_field_parts, one pass of the loop over the paths
InsertPath(nodes, field_name) ==
    InsertParts(nodes, SplitDunder(field_name), 1, 0)

\* _prepare_field_parts
RECURSIVE PrepareFieldPartsFrom(_, _, _)
PrepareFieldPartsFrom(names, i, nodes) ==
    IF i > Len(names) THEN nodes
    ELSE PrepareFieldPartsFrom(names, i + 1, InsertPath(nodes, names[i]))

PrepareFieldParts(names) == PrepareFieldPartsFrom(names, 1, <<>>)

D1(a) == <<a>>

D2(a, b) == <<a, DunderSep, b>>

D3(a, b, c) == <<a, DunderSep, b, DunderSep, c>>

TreePathPool ==
    { D2("user", "name"), D2("user", "id"), D3("user", "profile", "lastname"),
      D2("admin", "id"), D3("admin", "profile", "email"),
      D1("user"), D2("user", "profile") }

TreeInit ==
    /\ \E n \in 0..MaxPaths : flat_list \in [1..n -> TreePathPool]
    /\ position = 0
    /\ fields_parts = <<>>
    /\ builder = FreshInstance
    /\ call = None
    /\ calls = 0
    /\ model_class = "Post"
    /\ fields = <<>> /\ filters = <<>> /\ order_by = <<>>
    /\ limit = None /\ offset = None
    /\ pc = "tree"
    /\ stmt = None
    /\ mapping = EmptyMapping
    /\ error = None

\* _prepare_field_parts: the next path goes into the tree.
PrepareFieldPartsStep ==
    /\ pc = "tree"
    /\ position < Len(flat_list)
    /\ fields_parts' = InsertPath(fields_parts, flat_list[position + 1])
    /\ position' = position + 1
    /\ UNCHANGED <<args, instance, pc, stmt, mapping, error, flat_list>>

TreeNext == PrepareFieldPartsStep

TreeSpec == TreeInit /\ [][TreeNext]_vars

-----------------------------------------------------------------------------
(* The tree-based builder of src/selectable_field.py.  Its build_query     *)
(* keeps the statement and the eager-load chain on the instance; a method  *)
(* gives back the instance as it leaves it, also when it raises.  _get_field *)
(* and _get_relationship_field are the code of src/sql_query_builder.py.   *)
(* orm says whether the library refuses what it could refuse.              *)

\* The most selection paths one call is given.
MaxSelectableNames == 2

\* The most calls made on one instance.
MaxCalls == 2

Passed(inst) == [ok |-> TRUE, self |-> inst, err |-> None]

Failed(inst, err) == [ok |-> FALSE, self |-> inst, err |-> Some(err)]

\* part.children, as places in the tree, in the order of the list
Children(nodes, k) ==
    SelectSeq([j \in 1..Len(nodes) |-> j], LAMBDA j : nodes[j].parent = k)

WithChildren(nodes, ks) ==
    SelectSeq(ks, LAMBDA j : Children(nodes, j) # <<>>)

WithoutChildren(nodes, ks) ==
    SelectSeq(ks, LAMBDA j : Children(nodes, j) = <<>>)

\* select(model_class)
TreeSelect(m) == [entity |-> m, outerjoin |-> <<>>, options |-> <<>>]

\* self._stmt = self._stmt.outerjoin(field)
WithJoin(inst, field) ==
    [inst EXCEPT !.stmt = Some([@[1] EXCEPT !.outerjoin = Append(@, field)])]

\* self._stmt = self._stmt.options(...)
WithOption(inst, option) ==
    [inst EXCEPT !.stmt = Some([@[1] EXCEPT !.options = Append(@, option)])]

\* load_only(*fields) on the root
LoadOnly(fs) == [kind |-> "load_only", fields |-> fs, chain |-> <<>>]

\* contains_eager(...).load_only(...)...: the hops of the chain
ContainsEager(chain) == [kind |-> "contains_eager", fields |-> <<>>, chain |-> chain]

\* fields = [self._get_field(model_class, part.name) for the parts]
RECURSIVE GetFields(_, _, _, _, _)
GetFields(m, nodes, ks, i, fs) ==
    IF i > Len(ks) THEN Ok(fs)
    ELSE LET got == GetField(m, nodes[ks[i]].name) IN
         IF ~got.ok THEN got
         ELSE GetFields(m, nodes, ks, i + 1, Append(fs, got.val))

\* _set_join_to_stmt, and its loop over the nested parts
RECURSIVE SetJoinToStmt(_, _, _, _, _)
RECURSIVE SetJoinsOver(_, _, _, _, _, _)
SetJoinToStmt(inst, m, nodes, k, orm) ==
    LET field == GetField(m, nodes[k].name) IN
    IF ~field.ok THEN Failed(inst, field.err)
    ELSE IF orm /\ ~IsRelationship(field.val) THEN Failed(inst, OrmRefuses.err)
    ELSE LET joined == WithJoin(inst, field.val)
             relationship_field == GetRelationshipField(m, nodes[k].name)
         IN IF ~relationship_field.ok
            THEN Failed(joined, relationship_field.err)
            ELSE SetJoinsOver(joined, MapperClass(relationship_field.val),
                              nodes, Children(nodes, k), 1, orm)

SetJoinsOver(inst, m, nodes, parts, i, orm) ==
    IF i > Len(parts) THEN Passed(inst)
    ELSE LET set == SetJoinToStmt(inst, m, nodes, parts[i], orm) IN
         IF ~set.ok THEN set
         ELSE SetJoinsOver(set.self, m, nodes, parts, i + 1, orm)

\* set_joins_to_stmt
SetJoinsToStmt(inst, m, join_field_names, orm) ==
    LET join_field_parts == PrepareFieldParts(join_field_names) IN
    SetJoinsOver(inst, m, join_field_parts, Children(join_field_parts, 0), 1, orm)

\* _set_head_selectable_fields_to_stmt of src/selectable_field.py
TreeSetHeadSelectableFieldsToStmt(inst, m, nodes, orm) ==
    LET head_selectable_field_parts == WithoutChildren(nodes, Children(nodes, 0))
        got == GetFields(m, nodes, head_selectable_field_parts, 1, <<>>)
    IN IF ~got.ok THEN Failed(inst, got.err)
       ELSE IF orm /\ (got.val = <<>> \/ HasRelationship(got.val))
       THEN Failed(inst, OrmRefuses.err)
       ELSE Passed(WithOption(inst, LoadOnly(got.val)))

\* The chain does not end where the relationship starts.
DoesNotLink(chain, relationship_field) ==
    /\ chain # None
    /\ MapperClass(Last(chain[1]).relationship) # relationship_field.model

\* _prepare_contains_eager_chain, and its loop over the nested parts
RECURSIVE PrepareContainsEagerChain(_, _, _, _, _)
RECURSIVE PrepareChainsOver(_, _, _, _, _, _)
PrepareContainsEagerChain(inst, m, nodes, k, orm) ==
    LET current_field_parts == WithoutChildren(nodes, Children(nodes, k))
        nested_field_parts == WithChildren(nodes, Children(nodes, k))
        relationship_field == GetRelationshipField(m, nodes[k].name)
    IN IF ~relationship_field.ok THEN Failed(inst, relationship_field.err)
       ELSE LET target == MapperClass(relationship_field.val)
                got == GetFields(target, nodes, current_field_parts, 1, <<>>)
                hop == [relationship |-> relationship_field.val,
                        load_only |-> got.val]
            IN IF current_field_parts = <<>>
               THEN PrepareChainsOver(inst, target, nodes, nested_field_parts, 1, orm)
               ELSE IF ~got.ok THEN Failed(inst, got.err)
               ELSE IF orm /\ ( \/ HasRelationship(got.val)
                                \/ DoesNotLink(inst.contains_eager_chain,
                                               relationship_field.val) )
               THEN Failed(inst, OrmRefuses.err)
               ELSE PrepareChainsOver(
                        [inst EXCEPT !.contains_eager_chain =
                            IF @ = None THEN Some(<<hop>>)
                            ELSE Some(Append(@[1], hop))],
                        target, nodes, nested_field_parts, 1, orm)

PrepareChainsOver(inst, m, nodes, parts, i, orm) ==
    IF i > Len(parts) THEN Passed(inst)
    ELSE LET made == PrepareContainsEagerChain(inst, m, nodes, parts[i], orm) IN
         IF ~made.ok THEN made
         ELSE PrepareChainsOver(made.self, m, nodes, parts, i + 1, orm)

\* A loop over the nested roots that does not empty the chain first.
RECURSIVE SetNestedOverKeepingChain(_, _, _, _, _, _)
SetNestedOverKeepingChain(inst, m, nodes, parts, i, orm) ==
    IF i > Len(parts) THEN Passed(inst)
    ELSE LET made == PrepareContainsEagerChain(inst, m, nodes, parts[i], orm) IN
         IF ~made.ok THEN made
         ELSE SetNestedOverKeepingChain(
                  WithOption(made.self,
                             ContainsEager(made.self.contains_eager_chain[1])),
                  m, nodes, parts, i + 1, orm)

\* _set_nested_selectable_fields_to_stmt, the loop over the nested roots
RECURSIVE SetNestedOver(_, _, _, _, _, _)
SetNestedOver(inst, m, nodes, parts, i, orm) ==
    IF i > Len(parts) THEN Passed(inst)
    ELSE LET made == PrepareContainsEagerChain(
                         [inst EXCEPT !.contains_eager_chain = None],
                         m, nodes, parts[i], orm)
         IN IF ~made.ok THEN made
            ELSE SetNestedOver(
                     WithOption(made.self,
                                ContainsEager(made.self.contains_eager_chain[1])),
                     m, nodes, parts, i + 1, orm)

\* _set_nested_selectable_fields_to_stmt
SetNestedSelectableFieldsToStmt(inst, m, nodes, orm) ==
    SetNestedOver(inst, m, nodes, WithChildren(nodes, Children(nodes, 0)), 1, orm)

\* set_selectable_fields_to_stmt
SetSelectableFieldsToStmt(inst, m, selectable_field_names, orm) ==
    LET selectable_field_parts == PrepareFieldParts(selectable_field_names)
        head == TreeSetHeadSelectableFieldsToStmt(inst, m, selectable_field_parts, orm)
    IN IF ~head.ok THEN head
       ELSE SetNestedSelectableFieldsToStmt(head.self, m, selectable_field_parts, orm)

\* build_query of src/selectable_field.py: the instance it leaves, and the
\* statement it returns or the exception it raises.
TreeBuildQuery(inst, m, join_field_names, selectable_field_names, orm) ==
    LET begun == [inst EXCEPT !.stmt = Some(TreeSelect(m))]
        joins == SetJoinsToStmt(begun, m, join_field_names, orm)
        selected == SetSelectableFieldsToStmt(joins.self, m,
                                              selectable_field_names, orm)
    IN IF ~joins.ok
       THEN [self |-> joins.self, result |-> [ok |-> FALSE, err |-> joins.err[1]]]
       ELSE IF ~selected.ok
       THEN [self |-> selected.self,
             result |-> [ok |-> FALSE, err |-> selected.err[1]]]
       ELSE [self |-> selected.self, result |-> Ok(selected.self.stmt[1])]

\* The join paths a call is given: none, those of test(), one that ends
\* in a column.
JoinNameLists ==
    { <<>>, <<D1("user"), D2("user", "profile")>>, <<D2("user", "profile")>>,
      <<D1("title")>> }

SelectableNamePool ==
    { D1("title"), D2("user", "username"),
      D3("user", "profile", "first_name"), D3("user", "profile", "nope") }

BuilderInit ==
    /\ builder = FreshInstance
    /\ call = None
    /\ calls = 0
    /\ model_class = "Post"
    /\ fields = <<>> /\ filters = <<>> /\ order_by = <<>>
    /\ limit = None /\ offset = None
    /\ pc = "builder"
    /\ stmt = None
    /\ mapping = EmptyMapping
    /\ error = None
    /\ flat_list = <<>>
    /\ position = 0
    /\ fields_parts = <<>>

\* One build_query call on the instance, from its first statement to its
\* return or to the exception that leaves it.  The call is kept with what
\* it found on the instance: whether an eager-load chain was left there,
\* and whether the call before it had failed.
BuildQueryCall ==
    /\ pc = "builder"
    /\ calls < MaxCalls
    /\ \E b \in 0..MaxSelectableNames, orm \in BOOLEAN :
         \E join_field_names \in JoinNameLists,
            selectable_field_names \in [1..b -> SelectableNamePool] :
           LET made == TreeBuildQuery(builder, model_class, join_field_names,
                                      selectable_field_names, orm)
           IN /\ builder' = made.self
              /\ call' = Some([join_field_names |-> join_field_names,
                               selectable_field_names |-> selectable_field_names,
                               orm |-> orm,
                               chain_was_left |->
                                   builder.contains_eager_chain # None,
                               after_failure |->
                                   call # None /\ ~call[1].result.ok,
                               result |-> made.result])
    /\ calls' = calls + 1
    /\ UNCHANGED <<args, tree, pc, stmt, mapping, error>>

BuilderNext == BuildQueryCall

BuilderSpec == BuilderInit /\ [][BuilderNext]_vars

-----------------------------------------------------------------------------
(* What the claims are stated with: where the call is, and what a path     *)
(* names in the schema when it is read by position, every part but the     *)
(* last a relationship and the last a column.                              *)

Returned == pc = "done"

Ended == pc \in {"done", "failed"}

FailedAt(step) == pc = "failed" /\ error[1].at = step

\* The selection paths have been compiled into the statement.
SelectionDone ==
    \/ pc \in {"filters", "order_by", "limit", "offset", "done"}
    \/ FailedAt("filters") \/ FailedAt("order_by")

FiltersDone ==
    pc \in {"order_by", "limit", "offset", "done"} \/ FailedAt("order_by")

OrderByDone == pc \in {"limit", "offset", "done"}

Range(s) == { s[i] : i \in 1..Len(s) }

IsProperPrefix(s, t) == Len(s) < Len(t) /\ SubSeq(t, 1, Len(s)) = s

\* The relationships followed from entity m along names, and the entity
\* they end at; None when a name is no relationship of the entity reached.
RECURSIVE Reach(_, _, _)
Reach(m, names, chain) ==
    IF names = <<>> THEN Some([model |-> m, chain |-> chain])
    ELSE IF Len(names[1]) = 1 /\ names[1][1] \in RelationshipNames(m)
    THEN LET hop == Attr(m, names[1][1]) IN
         Reach(MapperClass(hop), Tail(names), Append(chain, hop))
    ELSE None

\* The column a path names from entity m, if it names one.
ColumnOf(m, parts) ==
    IF parts = <<>> THEN None
    ELSE LET reached == Reach(m, Front(parts), <<>>) IN
         IF reached = None THEN None
         ELSE IF Len(Last(parts)) = 1 /\ Last(parts)[1] \in Columns(reached[1].model)
         THEN Some(Attr(reached[1].model, Last(parts)[1]))
         ELSE None

\* The entity a path ending in the wildcard asks all fields of.
WildcardOf(m, parts) ==
    IF parts = <<>> \/ Last(parts) # Star THEN None
    ELSE LET reached == Reach(m, Front(parts), <<>>) IN
         IF reached = None THEN None ELSE Some(reached[1].model)

SelectionParts(i) == Split(fields[i])

ValidSelectionPath(i) ==
    \/ ColumnOf(model_class, SelectionParts(i)) # None
    \/ WildcardOf(model_class, SelectionParts(i)) # None

\* The operator tokens of filter keys.
OperatorTokens ==
    {"eq", "ne", "lt", "le", "between", "in", "not_in", "ilike", "icontains"}

\* A filter key ends in an operator token when its last token is one and
\* stands alone or right after a separator.
EndsInOperator(key) ==
    /\ Len(key) > 0
    /\ key[Len(key)] \in OperatorTokens
    /\ (Len(key) = 1 \/ key[Len(key) - 1] = Sep)

FilterOperator(key) == IF EndsInOperator(key) THEN key[Len(key)] ELSE "eq"

FilterPath(key) ==
    IF ~EndsInOperator(key) THEN Split(key)
    ELSE IF Len(key) = 1 THEN <<>>
    ELSE Split(SubSeq(key, 1, Len(key) - 2))

SortPath(raw) == Split(IF StartsWithDash(raw) THEN Tail(raw) ELSE raw)

-----------------------------------------------------------------------------
(* C1                                                                      *)

\* Selection path i is a chain of relationships that another selection
\* path continues: it both ends and goes on.
EndsAndContinues(i) ==
    /\ Reach(model_class, SelectionParts(i), <<>>) # None
    /\ \E j \in 1..Len(fields) :
         /\ IsProperPrefix(SelectionParts(i), SelectionParts(j))
         /\ ValidSelectionPath(j)

\* The selection is ambiguous and nothing else is wrong with it.
AmbiguousSelection ==
    /\ model_class \in Entities
    /\ \E i \in 1..Len(fields) : EndsAndContinues(i)
    /\ \A i \in 1..Len(fields) : ValidSelectionPath(i) \/ EndsAndContinues(i)

\* C1: a call whose selection paths hold a path and a longer path that
\* has it as a prefix, in either order, ends with an AmbiguousPath error
\* and returns no statement.
C1_AmbiguousPathFails ==
    (AmbiguousSelection /\ Ended)
        => (pc = "failed" /\ error[1].msg = "AmbiguousPath")

-----------------------------------------------------------------------------
(* C2                                                                      *)

\* The relationships path parts goes through from the root.
HopsOf(parts) ==
    IF parts = <<>> THEN {}
    ELSE LET reached == Reach(model_class, Front(parts), <<>>) IN
         IF reached = None THEN {} ELSE Range(reached[1].chain)

\* C2: in the statement a call returns, every relationship a filter path
\* or a sort path goes through is outer-joined, whether or not a selection
\* path goes through it.
C2_FilterAndSortHopsJoined ==
    Returned =>
        /\ \A i \in 1..Len(filters) :
             HopsOf(FilterPath(filters[i].key)) \subseteq Range(stmt.outerjoin)
        /\ \A i \in 1..Len(order_by) :
             HopsOf(SortPath(order_by[i])) \subseteq Range(stmt.outerjoin)

-----------------------------------------------------------------------------
(* C3                                                                      *)

\* Some selection path asks all fields of entity e.
WildcardAt(e) ==
    \E i \in 1..Len(fields) : WildcardOf(model_class, SelectionParts(i)) = Some(e)

\* The entity a loader option restricts: the end of its chain, the root
\* for the empty chain.
OptionEntity(o) ==
    IF o.chain = <<>> THEN model_class ELSE MapperClass(Last(o.chain))

MappingMade == DOMAIN mapping # {}

\* C3: once the projection mapping is made, an entity that some selection
\* path asks all fields of has the entry "all fields", with no explicit
\* field left, wherever the wildcard path stands among the paths; and no
\* loader option of the statement restricts the fields of that entity.
C3_WildcardDominates ==
    \A e \in Entities :
        (MappingMade /\ WildcardAt(e)) =>
            /\ e \in DOMAIN mapping
            /\ mapping[e] = AllFields
            /\ \A k \in 1..Len(stmt.options) :
                 OptionEntity(stmt.options[k]) = e
                     => stmt.options[k].load_only = None

\* C3 witness: a returned statement for a selection that names a field of
\* User and, after it, all fields of User.
C3_Witness ==
    /\ Returned
    /\ \E i, j \in 1..Len(fields) :
         /\ i < j
         /\ ColumnOf(model_class, SelectionParts(i)) # None
         /\ ColumnOf(model_class, SelectionParts(i))[1].model = "User"
         /\ WildcardOf(model_class, SelectionParts(j)) = Some("User")
    /\ mapping["User"] = AllFields
    /\ \E k \in 1..Len(stmt.options) : OptionEntity(stmt.options[k]) = "User"

-----------------------------------------------------------------------------
(* C4                                                                      *)

\* The selection paths in another order.
Reorderings ==
    { [i \in 1..Len(fields) |-> fields[p[i]]] : p \in Permutations(1..Len(fields)) }

\* Two projection mappings give every entity the same fields.
SameProjection(m1, m2) ==
    /\ DOMAIN m1 = DOMAIN m2
    /\ \A e \in DOMAIN m1 :
         /\ m1[e].all = m2[e].all
         /\ Range(m1[e].fields) = Range(m2[e].fields)

\* C4: for valid selection paths, the call on any reordering of them gives
\* the same projection mapping and the same outer joins in the same order.
C4_OrderIndependent ==
    (Returned /\ \A i \in 1..Len(fields) : ValidSelectionPath(i)) =>
        \A q \in Reorderings :
            LET again == AddJoinsAndSelectableFields(
                             Select(model_class), model_class, q, FALSE)
                proj  == GetModelSelectableFieldsMapping(
                             model_class, GetPreparedSelectableFields(q), FALSE)
            IN /\ again.ok
               /\ again.val.outerjoin = stmt.outerjoin
               /\ fields # <<>> => (proj.ok /\ SameProjection(proj.val, mapping))

-----------------------------------------------------------------------------
(* C5                                                                      *)

\* The entities the selection paths reach through their relationships.
ReachedTargets ==
    UNION { { MapperClass(h) : h \in HopsOf(SelectionParts(i)) } :
            i \in 1..Len(fields) }

JoinedTargets == { MapperClass(j) : j \in Range(stmt.outerjoin) }

\* C5: once the selection is compiled, the statement has one outer join
\* for each entity the selection paths reach through relationships: every
\* such entity is joined, and none twice.
C5_OneJoinPerTarget ==
    SelectionDone =>
        /\ JoinedTargets = ReachedTargets
        /\ Len(stmt.outerjoin) = Cardinality(ReachedTargets)

\* C5 witness: three selection paths through the same relationship, a
\* wildcard among them, returned with a single join.
C5_Witness ==
    /\ Returned
    /\ Len(fields) = 3
    /\ \A i \in 1..3 : Front(SelectionParts(i)) = <<P1("user")>>
    /\ \E i \in 1..3 : Last(SelectionParts(i)) = Star
    /\ \A i \in 1..3 : ValidSelectionPath(i)
    /\ fields[1] # fields[2] /\ fields[2] # fields[3] /\ fields[1] # fields[3]
    /\ stmt.outerjoin = <<Attr("Post", "user")>>

-----------------------------------------------------------------------------
(* C6                                                                      *)

\* What the statement is to carry for a limit or an offset argument.
PositiveOnly(n) == IF n # None /\ n[1] > 0 THEN n ELSE None

\* C6: the returned statement carries the limit as given when it is
\* present and positive and no limit when it is absent, zero or negative;
\* the same for the offset.
C6_PositiveLimitAndOffsetOnly ==
    Returned =>
        /\ stmt.limit = PositiveOnly(limit)
        /\ stmt.offset = PositiveOnly(offset)

-----------------------------------------------------------------------------
(* C7                                                                      *)

\* Every filter key names a column.
FiltersResolve ==
    \A i \in 1..Len(filters) :
        ColumnOf(model_class, FilterPath(filters[i].key)) # None

-----------------------------------------------------------------------------
(* C8                                                                      *)

\* A filter key that names a column and goes on with a segment that is
\* no operator token.
UnknownOperatorSuffix(key) ==
    /\ ~EndsInOperator(key)
    /\ Len(Split(key)) > 1
    /\ ColumnOf(model_class, Front(Split(key))) # None

\* C8: a call that gets as far as the filters and has a filter key with
\* an operator suffix that is not in the table, the other keys naming
\* columns, ends with an UnknownOperator error.
C8_UnknownOperatorFails ==
    ( /\ FailedAt("filters") \/ FiltersDone
      /\ \E i \in 1..Len(filters) : UnknownOperatorSuffix(filters[i].key)
      /\ \A i \in 1..Len(filters) :
           \/ UnknownOperatorSuffix(filters[i].key)
           \/ ColumnOf(model_class, FilterPath(filters[i].key)) # None )
        => (pc = "failed" /\ error[1].msg = "UnknownOperator")

-----------------------------------------------------------------------------
(* C9                                                                      *)

SortsResolve ==
    \A i \in 1..Len(order_by) :
        ColumnOf(model_class, SortPath(order_by[i])) # None

\* A sort path with more than one leading marker: with one stripped, its
\* first segment still starts with a marker, and no attribute is so named.
DoubleMarker(raw) == Len(raw) >= 2 /\ raw[1] = Dash /\ raw[2] = Dash

\* C9: once the sort paths are compiled, the statement has one sort key
\* for each sort path, in order: descending when the path starts with the
\* marker and ascending otherwise, and on the column named by the path
\* without exactly one leading marker, whenever that names one.  No path
\* with a second leading marker gets a sort key, and the sort step fails
\* only when some path, so stripped, names no column.
C9_SortPathsCompile ==
    /\ OrderByDone =>
         /\ Len(stmt.order_by) = Len(order_by)
         /\ \A i \in 1..Len(order_by) :
              LET column == ColumnOf(model_class, SortPath(order_by[i])) IN
              /\ stmt.order_by[i].direction =
                     (IF order_by[i][1] = Dash THEN "desc" ELSE "asc")
              /\ column # None => stmt.order_by[i].field = column[1]
    /\ OrderByDone => \A i \in 1..Len(order_by) : ~DoubleMarker(order_by[i])
    /\ FailedAt("order_by") => ~SortsResolve

\* C9 witness: a returned statement sorted ascending on Profile.age and
\* descending on Profile.first_name.
C9_Witness ==
    /\ Returned
    /\ order_by = << P3("user", "profile", "age"),
                     <<Dash>> \o P3("user", "profile", "first_name") >>
    /\ stmt.order_by =
         << [field |-> Attr("Profile", "age"), direction |-> "asc"],
            [field |-> Attr("Profile", "first_name"), direction |-> "desc"] >>

-----------------------------------------------------------------------------
(* C10                                                                     *)

\* Some selection, filter or sort path ends, read by position, at a
\* relationship of the entity it reaches.
EndsAtRelationship(parts) == parts # <<>> /\ Reach(model_class, parts, <<>>) # None

SomePathEndsAtRelationship ==
    \/ \E i \in 1..Len(fields) : EndsAtRelationship(SelectionParts(i))
    \/ \E i \in 1..Len(filters) : EndsAtRelationship(FilterPath(filters[i].key))
    \/ \E i \in 1..Len(order_by) : EndsAtRelationship(SortPath(order_by[i]))

\* C10: a relationship is no field.  No projection entry, predicate or
\* sort key of the statement is on a relationship, and a call with a
\* selection, filter or sort path whose last segment names a relationship
\* returns no statement.
C10_RelationshipIsNoField ==
    Returned =>
        /\ ~SomePathEndsAtRelationship
        /\ \A k \in 1..Len(stmt.options) :
             stmt.options[k].load_only # None
                 => ~HasRelationship(stmt.options[k].load_only[1])
        /\ \A k \in 1..Len(stmt.where) : ~IsRelationship(stmt.where[k].field)
        /\ \A k \in 1..Len(stmt.order_by) : ~IsRelationship(stmt.order_by[k].field)

-----------------------------------------------------------------------------
(* C11                                                                     *)

\* The error relationship resolution owes to the segments before the last
\* of a path read by position from entity m: none when each names a
\* relationship of the entity reached so far, else the error of the first
\* that does not.
RECURSIVE HopError(_, _)
HopError(m, names) ==
    IF names = <<>> THEN None
    ELSE IF Len(names[1]) = 1 /\ names[1][1] \in RelationshipNames(m)
    THEN HopError(MapperClass(Attr(m, names[1][1])), Tail(names))
    ELSE IF Len(names[1]) = 1 /\ names[1][1] \in Columns(m)
    THEN Some("is not relationship of model")
    ELSE Some("does not contain relationship")

NonLast(parts) == IF parts = <<>> THEN <<>> ELSE Front(parts)

SelectionHopError(i) == HopError(model_class, NonLast(SelectionParts(i)))

FilterHopError(i) == HopError(model_class, NonLast(FilterPath(filters[i].key)))

SortHopError(i) == HopError(model_class, NonLast(SortPath(order_by[i])))

\* The mapping of the selection was made.
MappingDone == pc \in {"head", "joins"} \/ (fields # <<>> /\ SelectionDone)

\* C11: relationship resolution at the positions before the last.  A stage
\* that has passed met no such position naming a scalar field or nothing,
\* and a stage that fails at such a position, everything before it being
\* valid, reports the error of that case: unknown relationship for an
\* absent name, not a relationship for a scalar field.
C11_RelationshipResolutionErrors ==
    /\ MappingDone => \A i \in 1..Len(fields) : SelectionHopError(i) = None
    /\ FiltersDone => \A i \in 1..Len(filters) : FilterHopError(i) = None
    /\ OrderByDone => \A i \in 1..Len(order_by) : SortHopError(i) = None
    /\ \A i \in 1..Len(fields) :
         ( /\ FailedAt("select")
           /\ \A j \in 1..(i - 1) : ValidSelectionPath(j)
           /\ SelectionHopError(i) # None )
             => error[1].msg = SelectionHopError(i)[1]
    /\ \A i \in 1..Len(filters) :
         ( /\ FailedAt("filters")
           /\ \A j \in 1..(i - 1) :
                ColumnOf(model_class, FilterPath(filters[j].key)) # None
           /\ FilterHopError(i) # None )
             => error[1].msg = FilterHopError(i)[1]
    /\ \A i \in 1..Len(order_by) :
         ( /\ FailedAt("order_by")
           /\ \A j \in 1..(i - 1) :
                ColumnOf(model_class, SortPath(order_by[j])) # None
           /\ SortHopError(i) # None )
             => error[1].msg = SortHopError(i)[1]

-----------------------------------------------------------------------------
(* C12                                                                     *)

\* A path with an empty segment; the empty string splits into one.
Malformed(parts) == \E k \in 1..Len(parts) : parts[k] = <<>>

SomePathMalformed ==
    \/ \E i \in 1..Len(fields) : Malformed(SelectionParts(i))
    \/ \E i \in 1..Len(filters) : Malformed(FilterPath(filters[i].key))
    \/ \E i \in 1..Len(order_by) : Malformed(SortPath(order_by[i]))

\* Every path of the call is valid or has an empty segment.
OnlyMalformedIsWrong ==
    /\ model_class \in Entities
    /\ \A i \in 1..Len(fields) :
         ValidSelectionPath(i) \/ Malformed(SelectionParts(i))
    /\ \A i \in 1..Len(filters) :
         \/ ColumnOf(model_class, FilterPath(filters[i].key)) # None
         \/ Malformed(FilterPath(filters[i].key))
    /\ \A i \in 1..Len(order_by) :
         \/ ColumnOf(model_class, SortPath(order_by[i])) # None
         \/ Malformed(SortPath(order_by[i]))

\* C12: a call in which a selection, filter or sort path is empty or has
\* an empty segment, and nothing else is wrong, ends with a MalformedPath
\* error, which is not the error of an unknown field or relationship.
C12_MalformedPathFails ==
    (Ended /\ SomePathMalformed /\ OnlyMalformedIsWrong)
        => (pc = "failed" /\ error[1].msg = "MalformedPath")

-----------------------------------------------------------------------------
(* C13                                                                     *)

\* C13: with a root that is no entity of the schema the call is past its
\* first step only as failed at that step, with the error of the root and
\* no statement, whatever paths were given with it.
C13_InvalidRootFirst ==
    (model_class \notin Entities /\ pc # "start")
        => /\ FailedAt("start")
           /\ error[1].msg = "is not a sqlalchemy class"
           /\ stmt = None

\* C13 witness: the call has failed on its root, and was given a selection
\* path, a filter key and a sort path that name nothing.
C13_Witness ==
    /\ model_class \notin Entities
    /\ FailedAt("start")
    /\ fields = <<P1("nope")>>
    /\ Len(filters) = 1 /\ filters[1].key = P2("user", "nope")
    /\ order_by = <<<<Dash, Dash, "title">>>>

-----------------------------------------------------------------------------
(* C14                                                                     *)

\* No two children of one node, and no two roots, have one name.
NoDuplicateNames ==
    \A k, l \in 1..Len(fields_parts) :
        ( /\ fields_parts[k].parent = fields_parts[l].parent
          /\ fields_parts[k].name = fields_parts[l].name ) => k = l

\* Asking a node's parent for the node's name gives that node and the
\* tree as it is.
ReAddingGivesExisting ==
    \A k \in 1..Len(fields_parts) :
        LET node == fields_parts[k]
            got == IF node.parent = 0
                   THEN GetOrCreateRoot(fields_parts, node.name)
                   ELSE GetOrCreateChild(fields_parts, node.parent, node.name)
        IN got = [nodes |-> fields_parts, child |-> k]

\* C14: tree building is idempotent.  After any paths have gone into the
\* tree no node has two children of one name and no two roots have one
\* name; adding a child name that is there gives the node that is there
\* and the same tree, and so does putting in again a path that is in.
C14_TreeBuildingIdempotent ==
    /\ NoDuplicateNames
    /\ ReAddingGivesExisting
    /\ \A i \in 1..position : InsertPath(fields_parts, flat_list[i]) = fields_parts

\* C14 witness: three paths are in, the third a repeat of the first and
\* the second sharing its root, and the tree has the three nodes user,
\* name, id.
C14_Witness ==
    /\ flat_list = << D2("user", "name"), D2("user", "id"), D2("user", "name") >>
    /\ position = 3
    /\ fields_parts = << [name |-> <<"user">>, parent |-> 0],
                         [name |-> <<"name">>, parent |-> 1],
                         [name |-> <<"id">>, parent |-> 1] >>

-----------------------------------------------------------------------------
(* C15                                                                     *)

\* The names from a root down to node k.
RECURSIVE PathTo(_, _)
PathTo(nodes, k) ==
    IF nodes[k].parent = 0 THEN <<nodes[k].name>>
    ELSE Append(PathTo(nodes, nodes[k].parent), nodes[k].name)

\* The place of node k among the children of its parent.
Rank(nodes, k) ==
    Cardinality({ j \in 1..k : nodes[j].parent = nodes[k].parent })

\* The tree without the places of its nodes in fields_parts: each node as
\* the names down to it and its place among its siblings.
Shape(nodes) ==
    { [path |-> PathTo(nodes, k), rank |-> Rank(nodes, k)] : k \in 1..Len(nodes) }

TreeReorderings ==
    { [i \in 1..Len(flat_list) |-> flat_list[p[i]]] :
          p \in Permutations(1..Len(flat_list)) }

\* C15: the tree built from the path strings is the tree built from any
\* reordering of them, and from them with one of them given again: the
\* same roots with the same children at every level, in the same order.
C15_TreeOrderIndependent ==
    position = Len(flat_list) =>
        /\ \A q \in TreeReorderings :
             Shape(PrepareFieldParts(q)) = Shape(fields_parts)
        /\ \A i \in 1..Len(flat_list) :
             Shape(PrepareFieldParts(Append(flat_list, flat_list[i])))
                 = Shape(fields_parts)

-----------------------------------------------------------------------------
(* C16                                                                     *)

\* The stages of build_query in the order of its statements; the joins and
\* projections stage is the steps select, head and joins.
StageRank ==
    [start |-> 1, select |-> 2, head |-> 2, joins |-> 2, filters |-> 3,
     order_by |-> 4, limit |-> 5, offset |-> 6, done |-> 7]

StepRank ==
    [start |-> 1, select |-> 2, head |-> 3, joins |-> 4, filters |-> 5,
     order_by |-> 6, limit |-> 7, offset |-> 8, done |-> 9]

\* The stage the call is in, or failed in.
StageNow == IF pc = "failed" THEN StageRank[error[1].at] ELSE StageRank[pc]

\* The stage fails whatever the library does with what it is handed.
SelectionMustFail ==
    /\ fields # <<>>
    /\ ~AddJoinsAndSelectableFields(Select(model_class), model_class, fields, FALSE).ok

FiltersMustFail ==
    ~AddFiltersToStmt(Select(model_class), model_class, filters, FALSE).ok

SortMustFail ==
    ~AddOrderByToStmt(Select(model_class), model_class, order_by, FALSE).ok

\* The statement holds nothing of the stage the call is about to run, or
\* has failed in, nor of the stages after it.
NothingOfLaterStages ==
    stmt # None =>
        /\ StageNow <= 6 => stmt.offset = None
        /\ StageNow <= 5 => stmt.limit = None
        /\ StageNow <= 4 => stmt.order_by = <<>>
        /\ StageNow <= 3 => stmt.where = <<>>
        /\ (pc = "select" \/ FailedAt("select"))
              => stmt.outerjoin = <<>> /\ stmt.options = <<>>

\* A step leaves a call that has not ended, and takes it to the next step,
\* past the selection steps when no selection is given, or to its failure.
StepsInOrder ==
    /\ pc \notin {"done", "failed"}
    /\ \/ pc' = "failed" /\ error' # None /\ error'[1].at = pc
       \/ /\ pc' \notin {"done", "failed"} \/ pc' = "done"
          /\ StepRank[pc'] = StepRank[pc] + 1
             \/ (pc = "select" /\ fields = <<>> /\ pc' = "filters")
          /\ error' = None

\* C16: the stages of build_query run in the order base statement, joins
\* and projections, filters, sort, limit, offset: every step takes the
\* call to the next one or to its failure, and the statement holds
\* nothing of a stage after the one the call is in.  A failure ends the
\* call: no step follows it, so no later stage runs and no statement is
\* returned.  When a stage is bound to fail the call ends failed in that
\* stage or in an earlier one, never in a later one.
C16_StagesInOrder ==
    /\ [][StepsInOrder]_vars
    /\ [](NothingOfLaterStages)
    /\ [](stmt = None <=> (pc = "start" \/ FailedAt("start")))
    /\ []((Ended /\ model_class \in Entities /\ SelectionMustFail)
             => (pc = "failed" /\ StageNow = 2))
    /\ []((Ended /\ model_class \in Entities /\ FiltersMustFail)
             => (pc = "failed" /\ StageNow <= 3))
    /\ []((Ended /\ model_class \in Entities /\ SortMustFail)
             => (pc = "failed" /\ StageNow <= 4))

\* C16 witness: the call has failed in the filter stage after a selection
\* that gave a join, and its sort path is bound to fail too.
C16_Witness ==
    /\ FailedAt("filters")
    /\ stmt.outerjoin # <<>>
    /\ SortMustFail
    /\ stmt.order_by = <<>>

-----------------------------------------------------------------------------
(* C18                                                                     *)

AllSelectionValid == \A i \in 1..Len(fields) : ValidSelectionPath(i)

\* The root-level fields the selection paths name, in the order given.
RootLevelFields ==
    LET NamesOne(i) == Len(SelectionParts(i)) = 1 /\ SelectionParts(i) # <<Star>>
        picked == SelectSeq([i \in 1..Len(fields) |-> i], NamesOne)
    IN [k \in 1..Len(picked) |-> Attr(model_class, SelectionParts(picked[k])[1][1])]

BareStarGiven == \E i \in 1..Len(fields) : SelectionParts(i) = <<Star>>

\* The field restrictions the statement puts on the root entity.
RootRestrictions ==
    SelectSeq(stmt.options, LAMBDA o : o.chain = <<>> /\ o.load_only # None)

\* C18: in a call with valid selection paths that is past its selection
\* stage, the root entity has no field restriction when no selection is
\* given, when no selection path is a root-level field, and when the bare
\* wildcard is given; a bare wildcard alone gives no join and no option.
\* Otherwise the one restriction on the root is the root-level fields the
\* selection paths name.
C18_RootProjection ==
    (SelectionDone /\ model_class \in Entities /\ AllSelectionValid) =>
        /\ fields = <<>> => stmt.options = <<>> /\ stmt.outerjoin = <<>>
        /\ fields = <<Star>> => stmt.options = <<>> /\ stmt.outerjoin = <<>>
        /\ (BareStarGiven \/ RootLevelFields = <<>>) => RootRestrictions = <<>>
        /\ (~BareStarGiven /\ RootLevelFields # <<>>) =>
               /\ Len(RootRestrictions) = 1
               /\ Range(RootRestrictions[1].load_only[1]) = Range(RootLevelFields)

-----------------------------------------------------------------------------
(* C19                                                                     *)

\* The attribute a path names from entity m when every segment before the
\* last is followed as a relationship and the last is looked up on the
\* entity reached.
PositionalAttr(m, parts) ==
    IF parts = <<>> THEN None
    ELSE LET reached == Reach(m, Front(parts), <<>>) IN
         IF reached = None THEN None
         ELSE GetAttr(reached[1].model, Last(parts))

\* Selection path i was resolved by position: it is a wildcard on an
\* entity reached through relationships, whose entry is in the mapping,
\* or it names an attribute that way, and the entry of the attribute's
\* entity holds it or is "all fields".
SelectionByPosition(i) ==
    LET parts == SelectionParts(i)
        reached == Reach(model_class, Front(parts), <<>>)
        named == PositionalAttr(model_class, parts)
    IN IF Last(parts) = Star
       THEN reached # None /\ reached[1].model \in DOMAIN mapping
       ELSE /\ named # None
            /\ named[1].model \in DOMAIN mapping
            /\ \/ mapping[named[1].model].all
               \/ named[1] \in Range(mapping[named[1].model].fields)

\* C19: paths are resolved by position.  In a stage that has passed, every
\* segment before the last of every path was followed as a relationship
\* from the entity reached so far and the last was looked up as a field
\* on the entity reached, also in a path where an earlier segment has the
\* name of the last one.
C19_ResolvedByPosition ==
    /\ MappingDone => \A i \in 1..Len(fields) : SelectionByPosition(i)
    /\ FiltersDone =>
         \A i \in 1..Len(filters) :
            LET parts == FilterPath(filters[i].key) IN
            parts # <<>> =>
                /\ PositionalAttr(model_class, parts) # None
                /\ stmt.where[i].field = PositionalAttr(model_class, parts)[1]
    /\ OrderByDone =>
         \A i \in 1..Len(order_by) :
            LET parts == SortPath(order_by[i]) IN
            /\ PositionalAttr(model_class, parts) # None
            /\ stmt.order_by[i].field = PositionalAttr(model_class, parts)[1]

-----------------------------------------------------------------------------
(* C20                                                                     *)

\* The relationship prefixes of the selection paths: each path of more
\* than one segment without its last segment.
RelationshipPrefixes ==
    { Front(SelectionParts(i)) :
          i \in { j \in 1..Len(fields) : Len(SelectionParts(j)) > 1 } }

\* The eager-load directives of the statement.
EagerLoads == SelectSeq(stmt.options, LAMBDA o : o.chain # <<>>)

\* The field restriction the mapping has for an entity.
EntryRestriction(e) ==
    IF mapping[e].all THEN None ELSE Some(mapping[e].fields)

\* C20: past the selection stage the statement has exactly one eager-load
\* directive for each distinct relationship prefix of the selection
\* paths; its chain is every relationship from the root to the entity the
\* prefix reaches, in order, and its field restriction is the projection
\* entry of that entity, none when the entry is "all fields".
C20_OneEagerLoadPerPrefix ==
    (SelectionDone /\ fields # <<>>) =>
        /\ Len(EagerLoads) = Cardinality(RelationshipPrefixes)
        /\ \A prefix \in RelationshipPrefixes :
             LET reached == Reach(model_class, prefix, <<>>) IN
             /\ reached # None
             /\ reached[1].model \in DOMAIN mapping
             /\ \E k \in 1..Len(EagerLoads) :
                  /\ EagerLoads[k] = Option(reached[1].chain,
                                            EntryRestriction(reached[1].model))
                  /\ \A l \in 1..Len(EagerLoads) :
                       EagerLoads[l].chain = reached[1].chain => l = k

\* C20 witness: a returned statement for three paths with the prefixes
\* user (twice) and user.profile, with the two directives.
C20_Witness ==
    /\ Returned
    /\ fields = << P2("user", "id"), P3("user", "profile", "age"),
                   P2("user", "username") >>
    /\ EagerLoads =
         << Option(<<Attr("Post", "user")>>,
                   Some(<<Attr("User", "id"), Attr("User", "username")>>)),
            Option(<<Attr("Post", "user"), Attr("User", "profile")>>,
                   Some(<<Attr("Profile", "age")>>)) >>

\* ---------------------------------------------------------------------
\* C17: a builder keeps no state from one call to the next: a call on an
\* instance that earlier calls have used, whether they returned a
\* statement or raised, whether or not they left a loader chain behind,
\* gives the statement or the error the same call gives on an instance
\* that has just been constructed.
C17_NoStateAcrossCalls ==
    call # None =>
        call[1].result =
            TreeBuildQuery(FreshInstance, model_class,
                           call[1].join_field_names,
                           call[1].selectable_field_names,
                           call[1].orm).result

\* A second call, on an instance whose last call raised and left a loader
\* chain behind, returns a statement that carries a loader chain.
C17_Witness ==
    /\ calls >= 2
    /\ call # None
    /\ call[1].chain_was_left
    /\ call[1].after_failure
    /\ call[1].result.ok
    /\ \E i \in 1..Len(call[1].result.val.options) :
          call[1].result.val.options[i].kind = "contains_eager"

\* ---------------------------------------------------------------------
\* The relationships of the first j hops of an eager-load chain.
HopsUpTo(chain, j) == [h \in 1..j |-> chain[h].relationship]

\* Node k of the selection tree has children that have none.
HasLeafChildren(nodes, k) == WithoutChildren(nodes, Children(nodes, k)) # <<>>

\* The relationships from entity m down to node k, when every name on the
\* way is one.
RelationshipsTo(m, nodes, k) ==
    LET reached == Reach(m, PathTo(nodes, k), <<>>) IN
    IF reached = None THEN None ELSE Some(reached[1].chain)

\* The columns the leaf children of node k name on the entity the node
\* stands for.
LeafFields(m, nodes, k) ==
    LET reached == Reach(m, PathTo(nodes, k), <<>>) IN
    IF reached = None THEN None
    ELSE LET got == GetFields(reached[1].model, nodes,
                              WithoutChildren(nodes, Children(nodes, k)),
                              1, <<>>)
         IN IF got.ok THEN Some(got.val) ELSE None

\* The eager-load chains of the statement the last call returned.
ReturnedChains ==
    LET options == call[1].result.val.options IN
    { options[i].chain :
        i \in { n \in 1..Len(options) : options[n].kind = "contains_eager" } }

\* The restriction for the leaves under node k is on a chain that is the
\* relationships from the root to node k.
RestrictedOnItsChain(nodes, k) ==
    \E chain \in ReturnedChains : \E j \in 1..Len(chain) :
        /\ Some(HopsUpTo(chain, j)) = RelationshipsTo(model_class, nodes, k)
        /\ Some(chain[j].load_only) = LeafFields(model_class, nodes, k)

\* C21: in the tree-based builder, when a call returns a statement, for
\* every node of the selection tree that has leaf children the field
\* restriction for those leaves is on an eager-load chain that is exactly
\* the relationships from the root to that node: no hop of an
\* intermediate node without leaves is skipped, and no hop of a sibling
\* branch done earlier is in it.
C21_ChainIsPathFromRoot ==
    (call # None /\ call[1].result.ok) =>
        LET nodes == PrepareFieldParts(call[1].selectable_field_names) IN
        \A k \in 1..Len(nodes) :
            HasLeafChildren(nodes, k) => RestrictedOnItsChain(nodes, k)

\* ---------------------------------------------------------------------
\* The field the walk of filter key i alone ends at, starting with no
\* field in hand.
OwnFilterField(i) ==
    LET walked == WalkField(FilterPath(filters[i].key), 1, model_class, None)
    IN IF walked.ok THEN walked.val ELSE None

\* C22: once the filters are compiled, the path of every filter key
\* without its operator suffix has at least one segment, so a key that is
\* an operator token and nothing else was rejected, and the predicate of
\* every key is on the field resolved from that key's own path, never on
\* the field resolved for an earlier key of the call.
C22_FilterPathNonEmpty ==
    FiltersDone =>
        \A i \in 1..Len(filters) :
            /\ FilterPath(filters[i].key) # <<>>
            /\ Some(stmt.where[i].field) = OwnFilterField(i)

\* ---------------------------------------------------------------------
\* The relationships in the eager-load chains of the statement.
EagerLoadHops ==
    UNION { Range(EagerLoads[k].chain) : k \in 1..Len(EagerLoads) }

\* C23: in every statement build_query returns, each relationship that is
\* a hop of an eager-load chain of the statement has an outer join over
\* that same relationship, also when two selection paths reach one entity
\* through different relationships.
C23_EveryHopJoined ==
    Returned => EagerLoadHops \subseteq Range(stmt.outerjoin)

\* ---------------------------------------------------------------------
\* The join stage finds what it looks up: every relationship prefix of
\* the selection paths resolves from the root, and the entity at its end
\* has an entry in the projection map.
JoinLookupsDefined ==
    \A prefix \in RelationshipPrefixes :
        LET reached == Reach(model_class, prefix, <<>>) IN
        /\ reached # None
        /\ reached[1].model \in DOMAIN mapping

\* C24: whenever the projection map has been built for the selection
\* paths, the join stage on the same paths does not fail: every
\* relationship prefix resolves and the entity reached at the end of
\* every prefix has an entry in the map, so the lookup of the join stage
\* is defined.
C24_JoinStageNeverFails ==
    /\ MappingDone => JoinLookupsDefined
    /\ ~FailedAt("joins")

=============================================================================
